---- MODULE Spec2Model ----
(***************************************************************************)
(* zod-to-mongoose: conversion of a Zod object descriptor into a Mongoose  *)
(* schema definition (createSchema / convertField / unwrapType).           *)
(*                                                                         *)
(* JavaScript values are encoded as follows.                               *)
(*   - a scalar (a default value, a model name, an enum option) is a       *)
(*     string token: "undefined", "null", "str:<chars>", "num:<digits>",   *)
(*     "bool:true", "bool:false";                                          *)
(*   - a Zod descriptor is a record whose field  type  is  def.type  and   *)
(*     whose other fields are the properties the code reads (innerType,    *)
(*     defaultValue, element, shape, options);                             *)
(*   - a Mongoose schema type is a record: [marker |-> m] for the global   *)
(*     constructors String, Number, Boolean, Date and SchemaTypes.Mixed,   *)
(*     [list |-> <<e>>] for an array literal, [props |-> entries] for a    *)
(*     plain object built key by key, [obj |-> definition] for an instance *)
(*     of Schema, and [type |-> t, default |-> v] / [type |-> t, enum |->  *)
(*     options] for the two object literals convertField builds;           *)
(*   - a call either returns or throws: [returned |-> v] or                *)
(*     [thrown |-> e].                                                     *)
(***************************************************************************)
EXTENDS Integers, Sequences, FiniteSets, TLC

VARIABLES pc, call, result, registered, frames, steps, tree, outputs

vars == <<pc, call, result, registered, frames, steps, tree, outputs>>

-----------------------------------------------------------------------------
(* Bounds of the input universe. *)

MaxChain == 2    \* modifier layers around one core descriptor
MaxFields == 2   \* entries in one object shape
MaxSteps == 100  \* loop iterations and switch executions of one call
MaxCalls == 3    \* calls made on one descriptor tree kept by the caller

-----------------------------------------------------------------------------
(* JavaScript scalars. *)

Undefined == "undefined"
Null == "null"

\* JavaScript truthiness of a scalar token, as used by  !x .
Falsy(v) == v \in {"undefined", "null", "str:", "num:0", "bool:false"}

-----------------------------------------------------------------------------
(* Mongoose schema types. *)

StringMarker == [marker |-> "String"]
NumberMarker == [marker |-> "Number"]
BooleanMarker == [marker |-> "Boolean"]
DateMarker == [marker |-> "Date"]
Mixed == [marker |-> "Mixed"]

\* new Schema(definition): the instance keeps the definition as  obj .
Schema(definition) == [obj |-> definition]

\* connection.model(name, schema): the handle of the registered model.
Model(name, schema) == [modelName |-> name, modelSchema |-> schema]

\* The value of a variable that was declared and never assigned.
NoType == [marker |-> "undefined"]

Return(v) == [returned |-> v]
Throw(message) == [thrown |-> [name |-> "TypeError", message |-> message]]
Threw(r) == "thrown" \in DOMAIN r

-----------------------------------------------------------------------------
(* Zod descriptors, as the library's constructors build them. *)

ZString == [type |-> "string"]
ZNumber == [type |-> "number"]
ZBoolean == [type |-> "boolean"]
ZDate == [type |-> "date"]
ZSymbol == [type |-> "symbol"]
ZNull == [type |-> "null"]
ZLiteral(v) == [type |-> "literal", value |-> v]
ZNullable(d) == [type |-> "nullable", innerType |-> d]
ZOptional(d) == [type |-> "optional", innerType |-> d]
ZDefault(d, v) == [type |-> "default", innerType |-> d, defaultValue |-> v]
ZReadonly(d) == [type |-> "readonly", innerType |-> d]
ZArray(d) == [type |-> "array", element |-> d]
ZObject(shape) == [type |-> "object", shape |-> shape]
ZUnion(members) == [type |-> "union", options |-> members]

\* z.enum([...]): every option is both a key and a value of  entries .
ZEnum(opts) ==
    [type |-> "enum",
     entries |-> [i \in 1..Len(opts) |-> [key |-> opts[i], value |-> opts[i]]],
     options |-> opts]

\* z.nativeEnum(E) for a string-valued enum E: a ZodEnum whose entries are
\* the members of E and whose options are their values.
ZNativeEnum(members) ==
    [type |-> "enum",
     entries |-> members,
     options |-> [i \in 1..Len(members) |-> members[i].value]]

\* A layer whose def has no innerType, as a hand-built def can be; a layer
\* whose innerType is no instance of ZodType behaves the same.
BareNullable == [type |-> "nullable"]
BareOptional == [type |-> "optional"]
BareDefault(v) == [type |-> "default", defaultValue |-> v]
BareReadonly == [type |-> "readonly"]

\* A shape entry that is not a field: a value that is no instance of ZodType.
NotAZodType == [metadata |-> "str:description"]

\* x instanceof ZodType
IsZodType(x) == "type" \in DOMAIN x

isZodArray(definition) == IsZodType(definition) /\ definition.type = "array"
isZodDefault(definition) == IsZodType(definition) /\ definition.type = "default"
\* Variant: the guard tests for a class no enum descriptor is an instance of.
isZodEnum_OtherClass(definition) == FALSE
isZodEnum(definition) == IsZodType(definition) /\ definition.type = "enum"
isZodNullable(definition) == IsZodType(definition) /\ definition.type = "nullable"
isZodObject(definition) == IsZodType(definition) /\ definition.type = "object"
isZodOptional(definition) == IsZodType(definition) /\ definition.type = "optional"

-----------------------------------------------------------------------------
(* unwrapType *)

\* Variant: only the three modifier kinds are unwrapped.
HasInnerType_ModifiersOnly(definition) ==
    /\ definition.type \in {"nullable", "optional", "default"}
    /\ "innerType" \in DOMAIN definition
    /\ IsZodType(definition.innerType)

\* The loop condition: the descriptor has an inner descriptor.
HasInnerType(definition) ==
    /\ "innerType" \in DOMAIN definition
    /\ IsZodType(definition.innerType)

RECURSIVE unwrapLoop(_, _, _, _)
unwrapLoop(definition, nullable, optional, defaultValue) ==
    IF HasInnerType(definition)
    THEN unwrapLoop(definition.innerType,
                    nullable \/ isZodNullable(definition),
                    optional \/ isZodOptional(definition),
                    IF isZodDefault(definition)
                    THEN definition.defaultValue
                    ELSE defaultValue)
    ELSE [defaultValue |-> defaultValue, definition |-> definition,
          nullable |-> nullable, optional |-> optional]

\* Variant: the nullable flag is assigned at every layer instead of being
\* set once, so that a layer under the nullable one clears it.
RECURSIVE unwrapLoop_FlagOverwritten(_, _, _, _)
unwrapLoop_FlagOverwritten(definition, nullable, optional, defaultValue) ==
    IF HasInnerType(definition)
    THEN unwrapLoop_FlagOverwritten(definition.innerType,
                    isZodNullable(definition),
                    optional \/ isZodOptional(definition),
                    IF isZodDefault(definition)
                    THEN definition.defaultValue
                    ELSE defaultValue)
    ELSE [defaultValue |-> defaultValue, definition |-> definition,
          nullable |-> nullable, optional |-> optional]

unwrapType_FlagOverwritten(data) ==
    unwrapLoop_FlagOverwritten(data, FALSE, FALSE, Undefined)

\* Variant: a default value once found is kept, so that the outermost
\* default layer decides.
RECURSIVE unwrapLoop_FirstDefaultKept(_, _, _, _)
unwrapLoop_FirstDefaultKept(definition, nullable, optional, defaultValue) ==
    IF HasInnerType(definition)
    THEN unwrapLoop_FirstDefaultKept(definition.innerType,
                    nullable \/ isZodNullable(definition),
                    optional \/ isZodOptional(definition),
                    IF isZodDefault(definition) /\ defaultValue = Undefined
                    THEN definition.defaultValue
                    ELSE defaultValue)
    ELSE [defaultValue |-> defaultValue, definition |-> definition,
          nullable |-> nullable, optional |-> optional]

unwrapType_FirstDefaultKept(data) ==
    unwrapLoop_FirstDefaultKept(data, FALSE, FALSE, Undefined)

\* Variant: the default starts as null instead of undefined.
unwrapType_NullDefault(data) == unwrapLoop(data, FALSE, FALSE, Null)

unwrapType(data) == unwrapLoop(data, FALSE, FALSE, Undefined)

-----------------------------------------------------------------------------
(* convertField and createSchema *)

\* Variant: a default is detected by truthiness instead of  !== undefined .
Annotate_Truthy(coreType, unwrappedData) ==
    LET hasDefaultValue == ~Falsy(unwrappedData.defaultValue)
    IN  IF unwrappedData.nullable /\ ~hasDefaultValue
        THEN Return([default |-> Null, type |-> coreType])
        ELSE IF hasDefaultValue
             THEN Return([default |-> unwrappedData.defaultValue, type |-> coreType])
             ELSE Return(coreType)

\* Variant: the nullable flag forces the null default whatever was declared.
Annotate_NullFirst(coreType, unwrappedData) ==
    LET hasDefaultValue == unwrappedData.defaultValue # Undefined
    IN  IF unwrappedData.nullable
        THEN Return([default |-> Null, type |-> coreType])
        ELSE IF hasDefaultValue
             THEN Return([default |-> unwrappedData.defaultValue, type |-> coreType])
             ELSE Return(coreType)

\* Variant: an optional field without default is marked as not required.
Annotate_OptionalNotRequired(coreType, unwrappedData) ==
    LET hasDefaultValue == unwrappedData.defaultValue # Undefined
    IN  IF unwrappedData.nullable /\ ~hasDefaultValue
        THEN Return([default |-> Null, type |-> coreType])
        ELSE IF hasDefaultValue
             THEN Return([default |-> unwrappedData.defaultValue, type |-> coreType])
             ELSE IF unwrappedData.optional
                  THEN Return([required |-> "bool:false", type |-> coreType])
                  ELSE Return(coreType)

\* The annotation policy that ends convertField.
Annotate(coreType, unwrappedData) ==
    LET hasDefaultValue == unwrappedData.defaultValue # Undefined
    IN  IF unwrappedData.nullable /\ ~hasDefaultValue
        THEN Return([default |-> Null, type |-> coreType])
        ELSE IF hasDefaultValue
             THEN Return([default |-> unwrappedData.defaultValue, type |-> coreType])
             ELSE Return(coreType)

RECURSIVE convertField(_, _)
RECURSIVE createSchema(_, _, _)
RECURSIVE createSchemaLoop(_, _, _)
RECURSIVE elementShapeLoop(_, _, _)
RECURSIVE createSchemaLoop_NoSkip(_, _, _)
RECURSIVE createSchemaLoop_Prepend(_, _, _)

\* Variant: a shape entry that is no descriptor is rejected, not skipped.
createSchemaLoop_NoSkip(shape, i, convertedShape) ==
    IF i > Len(shape)
    THEN Return([props |-> convertedShape])
    ELSE LET key == shape[i].key
             zodField == shape[i].value
         IN  IF ~IsZodType(zodField)
             THEN Throw("Unsupported type in field: " \o key)
             ELSE LET converted == convertField(key, zodField)
                  IN  IF Threw(converted)
                      THEN converted
                      ELSE createSchemaLoop_NoSkip(shape, i + 1,
                               Append(convertedShape,
                                      [key |-> key, value |-> converted.returned]))

\* Variant: each converted field is put in front of the ones before it.
createSchemaLoop_Prepend(shape, i, convertedShape) ==
    IF i > Len(shape)
    THEN Return([props |-> convertedShape])
    ELSE LET key == shape[i].key
             zodField == shape[i].value
         IN  IF ~IsZodType(zodField)
             THEN createSchemaLoop_Prepend(shape, i + 1, convertedShape)
             ELSE LET converted == convertField(key, zodField)
                  IN  IF Threw(converted)
                      THEN converted
                      ELSE createSchemaLoop_Prepend(shape, i + 1,
                               <<[key |-> key, value |-> converted.returned]>>
                                   \o convertedShape)

\* The  for (const key in zodObject.shape)  loop of createSchema, from entry
\* i on, with the properties assigned so far.
createSchemaLoop(shape, i, convertedShape) ==
    IF i > Len(shape)
    THEN Return([props |-> convertedShape])
    ELSE LET key == shape[i].key
             zodField == shape[i].value
         IN  IF ~IsZodType(zodField)
             THEN createSchemaLoop(shape, i + 1, convertedShape)
             ELSE LET converted == convertField(key, zodField)
                  IN  IF Threw(converted)
                      THEN converted
                      ELSE createSchemaLoop(shape, i + 1,
                               Append(convertedShape,
                                      [key |-> key, value |-> converted.returned]))

\* The  for (const key in shape)  loop of the array case of convertField.
elementShapeLoop(shape, i, convertedShape) ==
    IF i > Len(shape)
    THEN Return([props |-> convertedShape])
    ELSE LET key == shape[i].key
             nestedField == shape[i].value
         IN  IF ~IsZodType(nestedField)
             THEN elementShapeLoop(shape, i + 1, convertedShape)
             ELSE LET converted == convertField(key, nestedField)
                  IN  IF Threw(converted)
                      THEN converted
                      ELSE elementShapeLoop(shape, i + 1,
                               Append(convertedShape,
                                      [key |-> key, value |-> converted.returned]))

\* Variant: the model is made whenever a connection is passed, whatever
\* the model name.
createSchema_ConnectionOnly(zodObject, modelName, connection) ==
    LET convertedShape == createSchemaLoop(zodObject.shape, 1, <<>>)
    IN  IF Threw(convertedShape)
        THEN convertedShape
        ELSE LET schema == Schema(convertedShape.returned)
             IN  IF Falsy(connection)
                 THEN Return(schema)
                 ELSE Return([model |-> Model(modelName, schema), schema |-> schema])

createSchema(zodObject, modelName, connection) ==
    LET convertedShape == createSchemaLoop(zodObject.shape, 1, <<>>)
    IN  IF Threw(convertedShape)
        THEN convertedShape
        ELSE LET schema == Schema(convertedShape.returned)
             IN  IF Falsy(connection) \/ Falsy(modelName)
                 THEN Return(schema)
                 ELSE Return([model |-> Model(modelName, schema), schema |-> schema])

\* Variant: the model is registered before the fields are converted.
modelCalls_BeforeConversion(zodObject, modelName, connection) ==
    IF Falsy(connection) \/ Falsy(modelName)
    THEN <<>>
    ELSE <<Model(modelName, Schema([props |-> <<>>]))>>

\* The calls of connection.model a createSchema call makes, in order: one,
\* on the last line, reached when the loop and the Schema constructor have
\* returned and both the connection and the model name are truthy. The
\* createSchema calls of convertField pass no connection.
modelCalls(zodObject, modelName, connection) ==
    LET outcome == createSchema(zodObject, modelName, connection)
    IN  IF ~Threw(outcome) /\ "model" \in DOMAIN outcome.returned
        THEN <<outcome.returned.model>>
        ELSE <<>>

\* Variant: an element that is no object is converted as its core, its
\* own modifier layers dropped.
ArrayCase_ElementCoreOnly(fieldName, definition) ==
    IF ~isZodArray(definition)
    THEN Throw("Expected " \o fieldName \o " to be of type ZodArray")
    ELSE LET elementType == definition.element
         IN  IF isZodObject(elementType)
             THEN LET convertedShape == elementShapeLoop(elementType.shape, 1, <<>>)
                  IN  IF Threw(convertedShape)
                      THEN convertedShape
                      ELSE Return([list |-> <<convertedShape.returned>>])
             ELSE LET converted ==
                          convertField(fieldName, unwrapType(elementType).definition)
                  IN  IF Threw(converted)
                      THEN converted
                      ELSE Return([list |-> <<converted.returned>>])

\* Variant: the element of an array is converted under an indexed name.
ArrayCase_IndexedName(fieldName, definition) ==
    IF ~isZodArray(definition)
    THEN Throw("Expected " \o fieldName \o " to be of type ZodArray")
    ELSE LET elementType == definition.element
         IN  IF isZodObject(elementType)
             THEN LET convertedShape == elementShapeLoop(elementType.shape, 1, <<>>)
                  IN  IF Threw(convertedShape)
                      THEN convertedShape
                      ELSE Return([list |-> <<convertedShape.returned>>])
             ELSE LET converted == convertField(fieldName \o "[0]", elementType)
                  IN  IF Threw(converted)
                      THEN converted
                      ELSE Return([list |-> <<converted.returned>>])

\* Variant: an object element takes the generic path, like any element.
ArrayCase_GenericElement(fieldName, definition) ==
    IF ~isZodArray(definition)
    THEN Throw("Expected " \o fieldName \o " to be of type ZodArray")
    ELSE LET converted == convertField(fieldName, definition.element)
         IN  IF Threw(converted)
             THEN converted
             ELSE Return([list |-> <<converted.returned>>])

\* Variant: the element is unwrapped before the test for an object, so that
\* an object under modifier layers is converted in place as well.
ArrayCase_UnwrapsElement(fieldName, definition) ==
    IF ~isZodArray(definition)
    THEN Throw("Expected " \o fieldName \o " to be of type ZodArray")
    ELSE LET elementType == definition.element
             elementCore == unwrapType(elementType).definition
         IN  IF isZodObject(elementCore)
             THEN LET convertedShape == elementShapeLoop(elementCore.shape, 1, <<>>)
                  IN  IF Threw(convertedShape)
                      THEN convertedShape
                      ELSE Return([list |-> <<convertedShape.returned>>])
             ELSE LET converted == convertField(fieldName, elementType)
                  IN  IF Threw(converted)
                      THEN converted
                      ELSE Return([list |-> <<converted.returned>>])

\* The array case of the switch.
ArrayCase(fieldName, definition) ==
    IF ~isZodArray(definition)
    THEN Throw("Expected " \o fieldName \o " to be of type ZodArray")
    ELSE LET elementType == definition.element
         IN  IF isZodObject(elementType)
             THEN LET convertedShape == elementShapeLoop(elementType.shape, 1, <<>>)
                  IN  IF Threw(convertedShape)
                      THEN convertedShape
                      ELSE Return([list |-> <<convertedShape.returned>>])
             ELSE LET converted == convertField(fieldName, elementType)
                  IN  IF Threw(converted)
                      THEN converted
                      ELSE Return([list |-> <<converted.returned>>])

Reverse(seq) == [i \in 1..Len(seq) |-> seq[Len(seq) + 1 - i]]

\* Variant: the options come out in the opposite order.
EnumCase_Reversed(fieldName, definition) ==
    IF ~isZodEnum(definition)
    THEN Throw("Expected " \o fieldName \o " to be of type ZodEnum")
    ELSE Return([enum |-> Reverse(definition.options), type |-> StringMarker])

\* Variant: the options are the keys of the enum object, not its values.
EnumCase_Keys(fieldName, definition) ==
    IF ~isZodEnum(definition)
    THEN Throw("Expected " \o fieldName \o " to be of type ZodEnum")
    ELSE Return([enum |-> [i \in 1..Len(definition.entries) |->
                             definition.entries[i].key],
                 type |-> StringMarker])

\* The enum case of the switch.
EnumCase(fieldName, definition) ==
    IF ~isZodEnum(definition)
    THEN Throw("Expected " \o fieldName \o " to be of type ZodEnum")
    ELSE Return([enum |-> definition.options, type |-> StringMarker])

\* Variant: a union is converted as its first member.
SwitchOnType_UnionAsFirstMember(fieldName, definition) ==
    CASE definition.type = "array" -> ArrayCase(fieldName, definition)
      [] definition.type = "boolean" -> Return(BooleanMarker)
      [] definition.type = "date" -> Return(DateMarker)
      [] definition.type = "default" -> Return(NoType)
      [] definition.type = "enum" -> EnumCase(fieldName, definition)
      [] definition.type = "number" -> Return(NumberMarker)
      [] definition.type = "object" -> Return(NoType)
      [] definition.type = "string" -> Return(StringMarker)
      [] definition.type = "union" -> convertField(fieldName, definition.options[1])
      [] OTHER -> Throw("Unsupported type: " \o fieldName)

\* Variant: the date case falls into the string case.
SwitchOnType_DateAsString(fieldName, definition) ==
    CASE definition.type = "array" -> ArrayCase(fieldName, definition)
      [] definition.type = "boolean" -> Return(BooleanMarker)
      [] definition.type = "date" -> Return(StringMarker)
      [] definition.type = "default" -> Return(NoType)
      [] definition.type = "enum" -> EnumCase(fieldName, definition)
      [] definition.type = "number" -> Return(NumberMarker)
      [] definition.type = "object" -> Return(NoType)
      [] definition.type = "string" -> Return(StringMarker)
      [] definition.type = "union" -> Return(Mixed)
      [] OTHER -> Throw("Unsupported type: " \o fieldName)

\* Variant: a union of one type and the null literal is converted as that
\* type.
SwitchOnType_NullUnionAsMember(fieldName, definition) ==
    CASE definition.type = "array" -> ArrayCase(fieldName, definition)
      [] definition.type = "boolean" -> Return(BooleanMarker)
      [] definition.type = "date" -> Return(DateMarker)
      [] definition.type = "default" -> Return(NoType)
      [] definition.type = "enum" -> EnumCase(fieldName, definition)
      [] definition.type = "number" -> Return(NumberMarker)
      [] definition.type = "object" -> Return(NoType)
      [] definition.type = "string" -> Return(StringMarker)
      [] definition.type = "union" ->
            IF Len(definition.options) = 2 /\ definition.options[2].type = "null"
            THEN convertField(fieldName, definition.options[1])
            ELSE IF Len(definition.options) = 2
                      /\ definition.options[1].type = "null"
                 THEN convertField(fieldName, definition.options[2])
                 ELSE Return(Mixed)
      [] OTHER -> Throw("Unsupported type: " \o fieldName)

\* Variant: a type the switch does not know falls back to Mixed.
SwitchOnType_UnknownAsMixed(fieldName, definition) ==
    CASE definition.type = "array" -> ArrayCase(fieldName, definition)
      [] definition.type = "boolean" -> Return(BooleanMarker)
      [] definition.type = "date" -> Return(DateMarker)
      [] definition.type = "default" -> Return(NoType)
      [] definition.type = "enum" -> EnumCase(fieldName, definition)
      [] definition.type = "number" -> Return(NumberMarker)
      [] definition.type = "object" -> Return(NoType)
      [] definition.type = "string" -> Return(StringMarker)
      [] definition.type = "union" -> Return(Mixed)
      [] OTHER -> Return(Mixed)

\* Variant: the switch has no case for a default layer.
SwitchOnType_NoDefaultCase(fieldName, definition) ==
    CASE definition.type = "array" -> ArrayCase(fieldName, definition)
      [] definition.type = "boolean" -> Return(BooleanMarker)
      [] definition.type = "date" -> Return(DateMarker)
      [] definition.type = "enum" -> EnumCase(fieldName, definition)
      [] definition.type = "number" -> Return(NumberMarker)
      [] definition.type = "object" -> Return(NoType)
      [] definition.type = "string" -> Return(StringMarker)
      [] definition.type = "union" -> Return(Mixed)
      [] OTHER -> Throw("Unsupported type: " \o fieldName)

\* switch (unwrappedData.definition.type): the value of coreType after it.
SwitchOnType(fieldName, definition) ==
    CASE definition.type = "array" -> ArrayCase(fieldName, definition)
      [] definition.type = "boolean" -> Return(BooleanMarker)
      [] definition.type = "date" -> Return(DateMarker)
      [] definition.type = "default" -> Return(NoType)
      [] definition.type = "enum" -> EnumCase(fieldName, definition)
      [] definition.type = "number" -> Return(NumberMarker)
      [] definition.type = "object" -> Return(NoType)
      [] definition.type = "string" -> Return(StringMarker)
      [] definition.type = "union" -> Return(Mixed)
      [] OTHER -> Throw("Unsupported type: " \o fieldName)

\* Variant: a nested object is stored as the plain mapping of its fields,
\* the way the element shape of an array is.
ObjectCase_PlainMapping(definition, switched) ==
    IF isZodObject(definition)
    THEN LET schema == createSchema(definition, Undefined, Undefined)
         IN  IF Threw(schema) THEN schema ELSE Return(schema.returned.obj)
    ELSE switched

\* if (isZodObject(unwrappedData.definition)) coreType = createSchema(...)
ObjectCase(definition, switched) ==
    IF isZodObject(definition)
    THEN createSchema(definition, Undefined, Undefined)
    ELSE switched

convertField(fieldName, zodField) ==
    LET unwrappedData == unwrapType(zodField)
        switched == SwitchOnType(fieldName, unwrappedData.definition)
        coreType == IF Threw(switched)
                    THEN switched
                    ELSE ObjectCase(unwrappedData.definition, switched)
    IN  IF Threw(coreType)
        THEN coreType
        ELSE IF coreType.returned = NoType
             THEN Throw("Could not determine Mongoose type for Zod type: " \o fieldName)
             ELSE Annotate(coreType.returned, unwrappedData)

-----------------------------------------------------------------------------
(* The descriptors the callers pass. *)

DefaultValues == {"str:Bob", "num:0", "bool:false", "str:"}

EnumType == ZEnum(<<"str:text", "str:enum-single", "str:enum-multi">>)
EnumUseCase == ZEnum(<<"str:edit", "str:readOnly">>)
NativeUseCase ==
    ZNativeEnum(<<[key |-> "str:Edit", value |-> "str:edit"],
                  [key |-> "str:ReadOnly", value |-> "str:readOnly"]>>)

Primitives == {ZString, ZNumber, ZBoolean, ZDate}
Enums == {EnumType, EnumUseCase, NativeUseCase}
Unions ==
    {ZUnion(<<ZString, ZLiteral("str:Dr.")>>),
     ZUnion(<<ZString, ZNull>>),
     ZUnion(<<ZNull, ZNumber>>),
     ZUnion(<<ZSymbol, ZNumber>>)}
LeafCores == Primitives \cup Enums \cup Unions \cup {ZSymbol}

\* One modifier layer around each descriptor of S.
Wrap(S) ==
    {ZNullable(d) : d \in S} \cup {ZOptional(d) : d \in S}
        \cup {ZDefault(d, v) : d \in S, v \in DefaultValues}

\* The descriptors of S under at most n modifier layers.
RECURSIVE ChainsOver(_, _)
ChainsOver(S, n) == IF n = 0 THEN S ELSE S \cup Wrap(ChainsOver(S, n - 1))

\* The keys of a shape, in the order the shape declares them.
KeyOrders == {<<"a", "b", "c", "d">>, <<"b", "a", "d", "c">>}

\* The shapes of n entries whose values are drawn from F.
ShapesOver(F, n) ==
    {[i \in 1..n |-> [key |-> keys[i], value |-> values[i]]] :
        keys \in KeyOrders, values \in [1..n -> F]}

\* The shapes of n entries with one value from F and the others from G.
FocusShapes(F, G, n) ==
    {[i \in 1..n |-> [key |-> keys[i],
                       value |-> IF i = p THEN focus ELSE others[i]]] :
        keys \in KeyOrders, p \in 1..n, focus \in F, others \in [1..n -> G]}

\* The entries of the shapes of nested objects and of array elements.
InnerEntries == {ZString, ZNullable(ZNumber), EnumType, ZSymbol, NotAZodType}

InnerShapes == UNION {ShapesOver(InnerEntries, n) : n \in 0..MaxFields}

ObjectCores == {ZObject(shape) : shape \in InnerShapes}

Address ==
    ZObject(<<[key |-> "city", value |-> ZString],
              [key |-> "zip", value |-> ZDefault(ZNumber, "num:0")]>>)

ElementTypes ==
    ObjectCores \cup
    {ZString, ZNumber, ZSymbol, EnumUseCase, ZNullable(ZString),
     ZDefault(ZString, "str:Bob"), ZArray(ZString),
     ZOptional(Address), ZNullable(Address), ZDefault(Address, "str:Bob")}

ArrayCores == {ZArray(element) : element \in ElementTypes}

DeepCores ==
    {ZObject(<<[key |-> "home", value |-> Address]>>),
     ZObject(<<[key |-> "tags", value |-> ZArray(EnumType)],
               [key |-> "home", value |-> ZNullable(Address)]>>),
     ZArray(ZObject(<<[key |-> "kind", value |-> NativeUseCase],
                      [key |-> "home", value |-> Address]>>))}

Item ==
    ZObject(<<[key |-> "name", value |-> ZString],
              [key |-> "note", value |-> NotAZodType],
              [key |-> "type", value |-> EnumType]>>)

SampleComposites ==
    {Address, ZObject(<<>>), ZArray(ZString), ZArray(Address), ZArray(Item),
     ZArray(ZSymbol)}

CompositeCores == ObjectCores \cup ArrayCores \cup DeepCores

\* The fields convertField is called on.
Fields ==
    ChainsOver(LeafCores \cup SampleComposites, MaxChain)
        \cup ChainsOver(CompositeCores, 1)

\* Descriptors the three modifier methods do not build: layers without an
\* inner descriptor, default layers without a value, readonly wrappers.
BareLayers ==
    {BareNullable, BareOptional, BareDefault("str:Bob"), BareReadonly,
     ZOptional(NotAZodType)}

ValuelessDefaults ==
    {ZDefault(ZString, Undefined), ZDefault(ZNullable(ZNumber), Undefined)}

ReadonlyWrappers ==
    {ZReadonly(d) : d \in {ZString, ZSymbol, EnumType, Address, ZArray(ZString),
                           ZNullable(ZString), ZDefault(ZNumber, "num:0"),
                           ZReadonly(ZDate)}}

IrregularCores == BareLayers \cup ValuelessDefaults \cup ReadonlyWrappers

IrregularFields ==
    IrregularCores \cup {ZNullable(d) : d \in IrregularCores}
        \cup {ZOptional(d) : d \in IrregularCores}
        \cup {ZDefault(ZReadonly(ZString), "str:Bob"),
              ZArray(ZReadonly(ZSymbol)), ZArray(BareDefault("num:0"))}

\* Objects with a field of an unsupported type below the top level.
Geo == ZObject(<<[key |-> "city", value |-> ZString],
                 [key |-> "geo", value |-> ZSymbol]>>)

UnsupportedBelow ==
    {Geo, ZArray(Geo), ZNullable(ZArray(ZSymbol)),
     ZObject(<<[key |-> "home", value |-> Geo]>>),
     ZObject(<<[key |-> "tags", value |-> ZArray(ZSymbol)],
               [key |-> "home", value |-> Address]>>)}

IrregularTop ==
    {ZReadonly(ZString), ZReadonly(ZSymbol), BareNullable,
     BareDefault("str:Bob"), ZArray(BareDefault("num:0"))}

\* The six orders of a nullable, an optional and a default layer.
TripleChains ==
    {ZNullable(ZOptional(ZDefault(ZString, "str:Bob"))),
     ZNullable(ZDefault(ZOptional(ZString), "str:Bob")),
     ZOptional(ZNullable(ZDefault(ZString, "str:Bob"))),
     ZOptional(ZDefault(ZNullable(ZString), "str:Bob")),
     ZDefault(ZNullable(ZOptional(ZString)), "str:Bob"),
     ZDefault(ZOptional(ZNullable(ZString)), "str:Bob"),
     ZOptional(ZOptional(ZOptional(Address)))}

\* Chains with several default layers, other layers between them.
StackedDefaults ==
    {ZDefault(ZDefault(ZDefault(ZNumber, "num:0"), "str:Bob"), "bool:false"),
     ZDefault(ZNullable(ZDefault(ZString, "str:")), "str:Bob"),
     ZOptional(ZDefault(ZDefault(Address, "str:Bob"), "num:0"))}

FieldNames == {"f"}

\* The fields of the objects createSchema is called on.
TopFields ==
    ChainsOver(LeafCores, 1) \cup SampleComposites \cup DeepCores
        \cup UnsupportedBelow \cup IrregularTop
Siblings == {ZString, ZSymbol, NotAZodType}

TopShapes ==
    {<<>>} \cup UNION {FocusShapes(TopFields, Siblings, n) : n \in 1..MaxFields}

Objects == {ZObject(shape) : shape \in TopShapes}

ModelNames == {Undefined, "str:", "str:User"}
Connections == {Undefined, "connection"}

-----------------------------------------------------------------------------
(* The calls. *)

NoCall == [op |-> "none"]
NoResult == [pending |-> TRUE]
NoTree == [none |-> "tree"]

\* What the caller keeps from one call to the next.
callerData == <<tree, outputs>>

Init ==
    /\ pc = "idle"
    /\ call = NoCall
    /\ result = NoResult
    /\ registered = <<>>
    /\ frames = <<>>
    /\ steps = 0
    /\ tree = NoTree
    /\ outputs = <<>>

\* A caller runs createSchema(zodObject, modelName, connection) to its end.
CallCreateSchema ==
    /\ pc = "idle"
    /\ \E zodObject \in Objects, modelName \in ModelNames,
          connection \in Connections :
            /\ call' = [op |-> "createSchema", zodObject |-> zodObject,
                        modelName |-> modelName, connection |-> connection]
            /\ result' = createSchema(zodObject, modelName, connection)
            /\ registered' = modelCalls(zodObject, modelName, connection)
    /\ pc' = "done"
    /\ UNCHANGED <<frames, steps>>
    /\ UNCHANGED callerData

\* convertField(fieldName, zodField) runs to its end.
CallConvertField ==
    /\ pc = "idle"
    /\ \E fieldName \in FieldNames,
          zodField \in Fields \cup IrregularFields \cup UnsupportedBelow
                          \cup TripleChains \cup StackedDefaults :
            /\ call' = [op |-> "convertField", fieldName |-> fieldName,
                        zodField |-> zodField]
            /\ result' = convertField(fieldName, zodField)
    /\ registered' = <<>>
    /\ pc' = "done"
    /\ UNCHANGED <<frames, steps>>
    /\ UNCHANGED callerData

\* unwrapType(data) runs to its end.
CallUnwrapType ==
    /\ pc = "idle"
    /\ \E data \in Fields \cup IrregularFields :
            /\ call' = [op |-> "unwrapType", data |-> data]
            /\ result' = Return(unwrapType(data))
    /\ registered' = <<>>
    /\ pc' = "done"
    /\ UNCHANGED <<frames, steps>>
    /\ UNCHANGED callerData

\* The caller takes the outcome; the next call starts afresh.
Finish ==
    /\ pc = "done"
    /\ pc' = "idle"
    /\ call' = NoCall
    /\ result' = NoResult
    /\ registered' = <<>>
    /\ frames' = <<>>
    /\ steps' = 0
    /\ tree' = NoTree
    /\ outputs' = <<>>

Next ==
    \/ CallCreateSchema
    \/ CallConvertField
    \/ CallUnwrapType
    \/ Finish

Spec == Init /\ [][Next]_vars

TypeOK ==
    /\ pc \in {"idle", "done"}
    /\ frames = <<>>
    /\ steps = 0
    /\ tree = NoTree
    /\ outputs = <<>>
    /\ pc = "idle" => call = NoCall /\ result = NoResult

-----------------------------------------------------------------------------
(* The same calls, one loop iteration or one switch at a time. frames is the
   stack of what is still to run: a for-in loop over a shape at entry i, or
   the conversion of one field, at the descriptor unwrapType has reached. *)

StepChains ==
    ChainsOver({ZString}, MaxChain) \cup
    {ZNullable(ZOptional(ZSymbol)), ZOptional(ZDefault(ZNullable(Address), "str:Bob")),
     ZReadonly(ZReadonly(ZDate)), ZNullable(ZReadonly(ZArray(Item))),
     EnumType, ZUnion(<<ZString, ZNull>>)}

StepFields ==
    StepChains \cup SampleComposites \cup DeepCores \cup UnsupportedBelow
        \cup IrregularTop

StepObjects ==
    {ZObject(shape) :
        shape \in {<<>>} \cup
                  UNION {FocusShapes(StepFields, {ZString, NotAZodType}, n) :
                            n \in 1..MaxFields}}

Top == frames[Len(frames)]
Rest == SubSeq(frames, 1, Len(frames) - 1)
LoopFrame(shape) == [shape |-> shape, i |-> 1]
FieldFrame(fieldName, definition) ==
    [definition |-> definition, fieldName |-> fieldName]
IsLoopFrame(frame) == "shape" \in DOMAIN frame

\* The loop of a createSchema activation, with the arguments the activation
\* got; the loop over the element shape of an array belongs to convertField
\* and is a LoopFrame.
SchemaFrame(shape, modelName, connection) ==
    [shape |-> shape, i |-> 1, modelName |-> modelName,
     connection |-> connection]
IsSchemaFrame(frame) == "modelName" \in DOMAIN frame

\* Variant: the createSchema call of convertField hands on the arguments
\* of the caller.
NestedFrame_CallerArgs(definition) ==
    SchemaFrame(definition.shape, call.modelName, call.connection)

\* coreType = createSchema(def)
NestedFrame(definition) ==
    SchemaFrame(definition.shape, Undefined, Undefined)

\* if (!connection || !modelName) return schema;
\* return connection.model(modelName, schema);
modelCallsAtEnd(frame) ==
    IF ~IsSchemaFrame(frame) \/ Falsy(frame.connection) \/ Falsy(frame.modelName)
    THEN <<>>
    ELSE <<Model(frame.modelName,
                 Schema(createSchemaLoop(frame.shape, 1, <<>>).returned))>>

\* Variant: the loop of unwrapType does not move to the inner descriptor.
InnerOf_Same(definition) == definition

\* definition = definition.def.innerType
InnerOf(definition) == definition.innerType

\* createSchema(zodObject) is entered.
StartCreateSchema ==
    /\ pc = "idle"
    /\ \E zodObject \in StepObjects :
          /\ call' = [op |-> "createSchema, stepwise", zodObject |-> zodObject,
                      modelName |-> Undefined, connection |-> Undefined]
          /\ frames' = <<SchemaFrame(zodObject.shape, Undefined, Undefined)>>
    /\ pc' = "running"
    /\ steps' = 0
    /\ UNCHANGED <<result, registered>>
    /\ UNCHANGED callerData

\* unwrapType(data) is entered.
StartUnwrapType ==
    /\ pc = "idle"
    /\ \E data \in StepChains \cup IrregularFields :
          /\ call' = [op |-> "unwrapType, stepwise", data |-> data]
          /\ frames' = <<FieldFrame("data", data)>>
    /\ pc' = "running"
    /\ steps' = 0
    /\ UNCHANGED <<result, registered>>
    /\ UNCHANGED callerData

\* One iteration of a for-in loop over a shape: an entry that is no ZodType
\* is skipped, any other is converted.
LoopStep ==
    /\ pc = "running"
    /\ steps < MaxSteps
    /\ IsLoopFrame(Top)
    /\ Top.i <= Len(Top.shape)
    /\ LET entry == Top.shape[Top.i]
           advanced == Append(Rest, [Top EXCEPT !.i = @ + 1])
       IN  frames' = IF IsZodType(entry.value)
                     THEN Append(advanced, FieldFrame(entry.key, entry.value))
                     ELSE advanced
    /\ steps' = steps + 1
    /\ UNCHANGED <<pc, call, result, registered>>
    /\ UNCHANGED callerData

\* A for-in loop is over: its shape is converted; createSchema returns when
\* it was the loop of the top object.
LoopEnd ==
    /\ pc = "running"
    /\ steps < MaxSteps
    /\ IsLoopFrame(Top)
    /\ Top.i > Len(Top.shape)
    /\ frames' = Rest
    /\ steps' = steps + 1
    /\ IF Len(frames) = 1
       THEN pc' = "done" /\ result' = Return([marker |-> "Schema"])
       ELSE UNCHANGED <<pc, result>>
    /\ registered' = registered \o modelCallsAtEnd(Top)
    /\ UNCHANGED call
    /\ UNCHANGED callerData

\* One iteration of the while loop of unwrapType.
UnwrapStep ==
    /\ pc = "running"
    /\ steps < MaxSteps
    /\ ~IsLoopFrame(Top)
    /\ HasInnerType(Top.definition)
    /\ frames' = Append(Rest, [Top EXCEPT !.definition = InnerOf(@)])
    /\ steps' = steps + 1
    /\ UNCHANGED <<pc, call, result, registered>>
    /\ UNCHANGED callerData

\* The while loop of unwrapType is over and unwrapType was the call.
UnwrapReturn ==
    /\ pc = "running"
    /\ steps < MaxSteps
    /\ call.op = "unwrapType, stepwise"
    /\ ~HasInnerType(Top.definition)
    /\ frames' = <<>>
    /\ steps' = steps + 1
    /\ pc' = "done"
    /\ result' = Return([definition |-> Top.definition])
    /\ UNCHANGED <<call, registered>>
    /\ UNCHANGED callerData

\* The switch of convertField on a type it maps: an array goes on with its
\* element, an object with its shape, anything else is converted at once.
SwitchStep ==
    /\ pc = "running"
    /\ steps < MaxSteps
    /\ call.op = "createSchema, stepwise"
    /\ ~IsLoopFrame(Top)
    /\ ~HasInnerType(Top.definition)
    /\ LET definition == Top.definition
       IN  /\ definition.type \in {"array", "boolean", "date", "enum", "number",
                                   "object", "string", "union"}
           /\ frames' =
                CASE definition.type = "array" /\ isZodObject(definition.element) ->
                        Append(Rest, LoopFrame(definition.element.shape))
                  [] definition.type = "array" /\ ~isZodObject(definition.element) ->
                        Append(Rest, FieldFrame(Top.fieldName, definition.element))
                  [] definition.type = "object" ->
                        Append(Rest, NestedFrame(definition))
                  [] OTHER -> Rest
    /\ steps' = steps + 1
    /\ UNCHANGED <<pc, call, result, registered>>
    /\ UNCHANGED callerData

\* The switch of convertField on any other type: the call ends in a throw.
ThrowStep ==
    /\ pc = "running"
    /\ steps < MaxSteps
    /\ call.op = "createSchema, stepwise"
    /\ ~IsLoopFrame(Top)
    /\ ~HasInnerType(Top.definition)
    /\ Top.definition.type \notin {"array", "boolean", "date", "enum", "number",
                                   "object", "string", "union"}
    /\ result' = IF Top.definition.type = "default"
                 THEN Throw("Could not determine Mongoose type for Zod type: "
                               \o Top.fieldName)
                 ELSE Throw("Unsupported type: " \o Top.fieldName)
    /\ frames' = <<>>
    /\ steps' = steps + 1
    /\ pc' = "done"
    /\ UNCHANGED <<call, registered>>
    /\ UNCHANGED callerData

NextSteps ==
    \/ StartCreateSchema
    \/ StartUnwrapType
    \/ LoopStep
    \/ LoopEnd
    \/ UnwrapStep
    \/ UnwrapReturn
    \/ SwitchStep
    \/ ThrowStep
    \/ Finish

\* A call that has started goes on running: JavaScript runs it to its end
\* without yielding.
SpecSteps == Init /\ [][NextSteps]_vars /\ WF_vars(NextSteps)

-----------------------------------------------------------------------------
(* The same steps for createSchema(zodObject, modelName, connection), on
   objects with objects inside: registered collects the calls of
   connection.model as the activations of createSchema return. *)

ModelFields ==
    DeepCores \cup UnsupportedBelow \cup
    {ZString, Address, ZOptional(ZDefault(ZNullable(Address), "str:Bob")),
     ZArray(Address), ZArray(ZNullable(Address)), ZReadonly(Address),
     ZObject(<<>>)}

ModelObjects ==
    {ZObject(shape) :
        shape \in {<<>>} \cup
                  UNION {FocusShapes(ModelFields, {Address, NotAZodType}, n) :
                            n \in 1..MaxFields}}

\* createSchema(zodObject, modelName, connection) is entered.
StartCreateModel ==
    /\ pc = "idle"
    /\ \E zodObject \in ModelObjects, modelName \in ModelNames,
          connection \in Connections :
          /\ call' = [op |-> "createSchema, stepwise", zodObject |-> zodObject,
                      modelName |-> modelName, connection |-> connection]
          /\ frames' = <<SchemaFrame(zodObject.shape, modelName, connection)>>
    /\ pc' = "running"
    /\ steps' = 0
    /\ UNCHANGED <<result, registered>>
    /\ UNCHANGED callerData

NextModel ==
    \/ StartCreateModel
    \/ LoopStep
    \/ LoopEnd
    \/ UnwrapStep
    \/ SwitchStep
    \/ ThrowStep
    \/ Finish

SpecModel == Init /\ [][NextModel]_vars

-----------------------------------------------------------------------------
(* A caller that keeps one descriptor tree and calls createSchema on it
   several times, with calls on other descriptors in between. steps counts
   the calls, outputs holds the outcomes of the calls on the kept tree, and
   registered grows with every model made on the connection. *)

RepeatFields ==
    {ZString, ZSymbol, ZOptional(ZDefault(ZNumber, "num:0")), ZNullable(EnumType),
     ZDefault(ZDefault(ZString, "str:Bob"), "str:"), ZReadonly(ZNullable(ZDate)),
     NativeUseCase, ZUnion(<<ZString, ZNull>>), Address, ZNullable(Address),
     ZArray(Item), ZArray(ZNullable(ZString)), Geo}

RepeatObjects ==
    {ZObject(<<>>)} \cup
    {ZObject(<<[key |-> "a", value |-> field],
               [key |-> "b", value |-> sibling]>>) :
        field \in RepeatFields, sibling \in {ZString, NotAZodType}}

OtherObjects ==
    {ZObject(<<[key |-> "a", value |-> ZArray(Address)]>>),
     ZObject(<<[key |-> "b", value |-> ZSymbol]>>)}

\* Variant: unwrapping strips the layers of the fields in the caller's tree.
descriptorAfter_Unwrapped(zodObject) ==
    [zodObject EXCEPT
        !.shape = [i \in 1..Len(zodObject.shape) |->
                     [key |-> zodObject.shape[i].key,
                      value |-> unwrapType(zodObject.shape[i].value).definition]]]

\* The caller's descriptor tree after a call: the three functions assign to
\* their own locals and to the objects they create, never to the descriptor
\* or its parts, and the module keeps no state of its own.
descriptorAfter(zodObject) == zodObject

\* The caller builds a descriptor tree to keep.
StartRepeat ==
    /\ pc = "idle"
    /\ \E zodObject \in RepeatObjects :
          /\ call' = [op |-> "createSchema, repeated", zodObject |-> zodObject]
          /\ tree' = zodObject
    /\ pc' = "repeating"
    /\ outputs' = <<>>
    /\ steps' = 0
    /\ UNCHANGED <<result, registered, frames>>

\* One more createSchema call on the kept tree.
RepeatCall ==
    /\ pc = "repeating"
    /\ steps < MaxCalls
    /\ \E modelName \in ModelNames, connection \in Connections :
          /\ result' = createSchema(tree, modelName, connection)
          /\ registered' = registered \o modelCalls(tree, modelName, connection)
    /\ outputs' = Append(outputs, result')
    /\ tree' = descriptorAfter(tree)
    /\ steps' = steps + 1
    /\ UNCHANGED <<pc, call, frames>>

\* A createSchema call on another descriptor, on the same connection.
OtherCall ==
    /\ pc = "repeating"
    /\ steps < MaxCalls
    /\ \E zodObject \in OtherObjects :
          /\ result' = createSchema(zodObject, "str:Other", "connection")
          /\ registered' =
                registered \o modelCalls(zodObject, "str:Other", "connection")
    /\ steps' = steps + 1
    /\ UNCHANGED <<pc, call, frames, tree, outputs>>

\* The caller is done with the tree.
RepeatEnd ==
    /\ pc = "repeating"
    /\ steps > 0
    /\ pc' = "done"
    /\ UNCHANGED <<call, result, registered, frames, steps, tree, outputs>>

NextRepeat ==
    \/ StartRepeat
    \/ RepeatCall
    \/ OtherCall
    \/ RepeatEnd
    \/ Finish

SpecRepeat == Init /\ [][NextRepeat]_vars

-----------------------------------------------------------------------------
(* Reading a descriptor and an outcome, for the properties below. *)

ModifierTypes == {"nullable", "optional", "default"}

\* A layer: a descriptor that wraps an inner descriptor.
IsLayer(d) ==
    /\ IsZodType(d)
    /\ "innerType" \in DOMAIN d
    /\ IsZodType(d.innerType)

IsModifierLayer(d) == IsLayer(d) /\ d.type \in ModifierTypes

\* The kind of a layer; a default layer that declares no value is not
\* counted as a default layer.
LayerKind(d) ==
    IF d.type = "default" /\ d.defaultValue = Undefined
    THEN "default without value"
    ELSE d.type

\* The kinds of the layers around the core of d.
RECURSIVE LayersOf(_)
LayersOf(d) ==
    IF IsLayer(d) THEN {LayerKind(d)} \cup LayersOf(d.innerType) ELSE {}

\* The descriptor under all the layers of d.
RECURSIVE CoreOf(_)
CoreOf(d) == IF IsLayer(d) THEN CoreOf(d.innerType) ELSE d

\* The value declared by the default layer of d closest to the core.
RECURSIVE DeclaredDefault(_)
DeclaredDefault(d) ==
    IF ~IsLayer(d)
    THEN Undefined
    ELSE LET inner == DeclaredDefault(d.innerType)
         IN  IF inner # Undefined \/ d.type # "default"
             THEN inner
             ELSE d.defaultValue

\* The schema type inside a {type, default} annotation, or the value itself.
Unannotated(v) == IF "default" \in DOMAIN v THEN v.type ELSE v

IsAnnotated(v) == DOMAIN v = {"default", "type"}

NoProps == <<>>

\* The entries of a plain mapping, of a Schema, of a one-element list of a
\* plain mapping; no entries for anything else.
PropsOfMapping(v) == IF "props" \in DOMAIN v THEN v.props ELSE NoProps
PropsOfSchema(v) == IF "obj" \in DOMAIN v THEN PropsOfMapping(v.obj) ELSE NoProps
ElementOf(v) ==
    IF "list" \in DOMAIN v /\ Len(v.list) = 1 THEN v.list[1] ELSE NoType

KeysOf(props) == [i \in 1..Len(props) |-> props[i].key]
KeySet(props) == {props[i].key : i \in 1..Len(props)}

Missing == [missing |-> TRUE]
PropAt(props, key) ==
    IF key \in KeySet(props)
    THEN props[CHOOSE i \in 1..Len(props) : props[i].key = key].value
    ELSE Missing

\* The entries of a shape that are fields.
FieldEntries(shape) == {i \in 1..Len(shape) : shape[i].value # NotAZodType}
FieldKeys(shape) == {shape[i].key : i \in FieldEntries(shape)}

\* Every (field descriptor, field spec) pair of a conversion that returned:
\* the field itself and, below it, the fields of a nested object, the fields
\* of the element shape of an array of objects, and the element of any other
\* array.
RECURSIVE PairsOfField(_, _)
RECURSIVE PairsOfShape(_, _)
PairsOfField(field, spec) ==
    LET core == CoreOf(field)
        mapped == Unannotated(spec)
    IN  {[field |-> field, spec |-> spec]} \cup
        (IF core.type = "object"
         THEN PairsOfShape(core.shape, PropsOfSchema(mapped))
         ELSE IF core.type = "array"
              THEN IF core.element.type = "object"
                   THEN PairsOfShape(core.element.shape,
                                     PropsOfMapping(ElementOf(mapped)))
                   ELSE PairsOfField(core.element, ElementOf(mapped))
              ELSE {})
PairsOfShape(shape, props) ==
    UNION {PairsOfField(shape[i].value, PropAt(props, shape[i].key)) :
              i \in FieldEntries(shape)}

Done(op) == pc = "done" /\ call.op = op
Returned(op) == Done(op) /\ ~Threw(result)

\* The Schema a createSchema call returned, bare or beside the model.
SchemaOf(returned) ==
    IF "schema" \in DOMAIN returned THEN returned.schema ELSE returned

\* The pairs of the call that has just returned.
AllPairs ==
    IF Returned("convertField")
    THEN PairsOfField(call.zodField, result.returned)
    ELSE IF Returned("createSchema")
         THEN PairsOfShape(call.zodObject.shape,
                           PropsOfSchema(SchemaOf(result.returned)))
         ELSE {}

\* The schema type of the core of a field: the conversion of the field
\* stripped of its modifier layers.
CoreTypeOf(field) == convertField("f", CoreOf(field)).returned

PrimitiveMarker(d) ==
    CASE d = ZString -> StringMarker
      [] d = ZNumber -> NumberMarker
      [] d = ZBoolean -> BooleanMarker
      [] d = ZDate -> DateMarker

-----------------------------------------------------------------------------
(* Properties. *)

\* C1: a field whose descriptor is a bare string, number, boolean or date
\* converts to exactly the matching marker String, Number, Boolean or Date,
\* with no {type, default} annotation around it.
C1_BarePrimitive ==
    \A p \in AllPairs :
        p.field \in Primitives => p.spec = PrimitiveMarker(p.field)

C1_Witness ==
    /\ Returned("createSchema")
    /\ \E i \in 1..Len(call.zodObject.shape) :
          /\ call.zodObject.shape[i].value = ZDate
          /\ PropAt(PropsOfSchema(SchemaOf(result.returned)),
                    call.zodObject.shape[i].key) = DateMarker

\* C2: a field with a default layer and no nullable layer converts to
\* {type: coreType, default: v}, v being the declared default value, also
\* when v is falsy (0, false, the empty string).
C2_DefaultAnnotation ==
    \A p \in AllPairs :
        ("default" \in LayersOf(p.field) /\ "nullable" \notin LayersOf(p.field))
            => p.spec = [default |-> DeclaredDefault(p.field),
                         type |-> CoreTypeOf(p.field)]

C2_Witness ==
    /\ Returned("convertField")
    /\ call.zodField = ZOptional(ZDefault(ZNumber, "num:0"))
    /\ result.returned = [default |-> "num:0", type |-> NumberMarker]

\* C3: a field with a nullable layer and no default layer converts to
\* {type: coreType, default: null}, for every core kind and with or without
\* optional layers.
C3_NullableAnnotation ==
    \A p \in AllPairs :
        ("nullable" \in LayersOf(p.field) /\ "default" \notin LayersOf(p.field))
            => p.spec = [default |-> Null, type |-> CoreTypeOf(p.field)]

C3_Witness ==
    /\ Returned("convertField")
    /\ call.zodField = ZNullable(ZOptional(ZArray(ZString)))
    /\ result.returned = [default |-> Null, type |-> [list |-> <<StringMarker>>]]

\* C4: a field with both a nullable layer and a default layer converts to
\* {type: coreType, default: v} with the declared default v; the default
\* is never forced to null.
C4_DefaultBeforeNull ==
    \A p \in AllPairs :
        ("nullable" \in LayersOf(p.field) /\ "default" \in LayersOf(p.field))
            => /\ p.spec = [default |-> DeclaredDefault(p.field),
                            type |-> CoreTypeOf(p.field)]
               /\ p.spec.default # Null

C4_Witness ==
    /\ Returned("convertField")
    /\ call.zodField = ZNullable(ZDefault(ZString, "str:"))
    /\ result.returned = [default |-> "str:", type |-> StringMarker]

\* The keys of props are exactly the keys of the field entries of shape,
\* each once.
ExactKeys(shape, props) ==
    /\ KeySet(props) = FieldKeys(shape)
    /\ Len(props) = Cardinality(FieldEntries(shape))

\* Every field entry of shape converts on its own.
FieldsConvert(shape) ==
    \A i \in FieldEntries(shape) :
        ~Threw(convertField(shape[i].key, shape[i].value))

\* C5: the schema definition built for an object descriptor has exactly
\* the keys of the shape entries that are field descriptors: every field
\* key is there (createSchema returns whenever its fields convert), no key
\* stands for a metadata entry or for anything outside the shape; likewise
\* for a nested object and for the element shape of an array of objects.
C5_ExactFieldKeys ==
    /\ (Done("createSchema") /\ FieldsConvert(call.zodObject.shape))
          => /\ ~Threw(result)
             /\ ExactKeys(call.zodObject.shape,
                          PropsOfSchema(SchemaOf(result.returned)))
    /\ \A p \in AllPairs :
          LET core == CoreOf(p.field)
              mapped == Unannotated(p.spec)
          IN  /\ core.type = "object"
                    => ExactKeys(core.shape, PropsOfSchema(mapped))
              /\ (core.type = "array" /\ core.element.type = "object")
                    => ExactKeys(core.element.shape,
                                 PropsOfMapping(ElementOf(mapped)))

C5_Witness ==
    /\ Returned("createSchema")
    /\ call.zodObject.shape =
          <<[key |-> "b", value |-> NotAZodType],
            [key |-> "a", value |-> ZArray(Item)]>>
    /\ KeysOf(PropsOfSchema(SchemaOf(result.returned))) = <<"a">>
    /\ KeysOf(PropsOfMapping(ElementOf(
            PropAt(PropsOfSchema(SchemaOf(result.returned)), "a"))))
          = <<"name", "type">>

\* The field entries of a shape, in order.
FieldSeq(shape) == SelectSeq(shape, LAMBDA e : e.value # NotAZodType)

\* The plain mapping of the fields of a shape, each converted on its own.
MappingOf(shape) ==
    LET fields == FieldSeq(shape)
    IN  [props |-> [i \in 1..Len(fields) |->
                      [key |-> fields[i].key,
                       value |-> convertField(fields[i].key,
                                              fields[i].value).returned]]]

\* C6 as stated: the value stored for a field whose core is an object is
\* the plain field-name to field-spec mapping of the nested fields.
C6_NestedIsPlainMapping ==
    \A p \in AllPairs :
        CoreOf(p.field).type = "object"
            => Unannotated(p.spec) = MappingOf(CoreOf(p.field).shape)

\* C6, amended: the value stored for a field whose core is an object is a
\* Schema instance constructed from the complete nested definition, whose
\* keys are exactly the nested field names, each converted by the same
\* rules.
C6_NestedIsSchema ==
    \A p \in AllPairs :
        CoreOf(p.field).type = "object"
            => Unannotated(p.spec) = Schema(MappingOf(CoreOf(p.field).shape))

C6_Witness ==
    /\ Returned("createSchema")
    /\ call.zodObject.shape =
          <<[key |-> "a", value |-> ZObject(<<[key |-> "home", value |-> Address]>>)],
            [key |-> "b", value |-> ZString]>>
    /\ PropAt(PropsOfSchema(SchemaOf(result.returned)), "a") =
          Schema([props |-> <<[key |-> "home", value |->
              Schema([props |-> <<[key |-> "city", value |-> StringMarker],
                                  [key |-> "zip", value |->
                                      [default |-> "num:0", type |-> NumberMarker]]>>])]>>])

IsList(v) == DOMAIN v = {"list"}

\* C7: an array field converts to a one-element list; the element is the
\* marker when the array element is a primitive, and one plain mapping
\* {a: spec of a, b: spec of b} when the array element is an object with
\* fields a and b (not a list, not a Schema).
C7_ArrayIsOneElementList ==
    \A p \in AllPairs :
        LET core == CoreOf(p.field)
            mapped == Unannotated(p.spec)
        IN  core.type = "array"
              => /\ IsList(mapped)
                 /\ Len(mapped.list) = 1
                 /\ core.element \in Primitives
                       => mapped.list[1] = PrimitiveMarker(core.element)
                 /\ core.element.type = "object"
                       => mapped.list[1] = MappingOf(core.element.shape)

C7_Witness ==
    /\ Returned("createSchema")
    /\ call.zodObject.shape =
          <<[key |-> "a", value |-> ZArray(Address)],
            [key |-> "b", value |-> ZString]>>
    /\ PropAt(PropsOfSchema(SchemaOf(result.returned)), "a") =
          [list |-> <<[props |->
              <<[key |-> "city", value |-> StringMarker],
                [key |-> "zip", value |->
                    [default |-> "num:0", type |-> NumberMarker]]>>]>>]

\* The enums declared with z.enum, and the options they declare.
ZodEnums == {EnumType, EnumUseCase}

\* C8: a field whose core is an enum converts, at every depth, to
\* {type: String, enum: options} with the options the enum declares, in
\* the declared order, none added or dropped.
C8_EnumOptionsInOrder ==
    \A p \in AllPairs :
        CoreOf(p.field) \in ZodEnums
            => Unannotated(p.spec) =
                 [enum |-> CoreOf(p.field).options, type |-> StringMarker]

C8_Witness ==
    /\ Returned("createSchema")
    /\ \E i \in 1..Len(call.zodObject.shape) :
          /\ call.zodObject.shape[i].value = ZArray(Item)
          /\ PropAt(PropsOfMapping(ElementOf(
                  PropAt(PropsOfSchema(SchemaOf(result.returned)),
                         call.zodObject.shape[i].key))), "type") =
                [enum |-> <<"str:text", "str:enum-single", "str:enum-multi">>,
                 type |-> StringMarker]

Range(seq) == {seq[i] : i \in 1..Len(seq)}

HasNullMember(union) ==
    \E i \in 1..Len(union.options) : union.options[i] = ZNull

\* C10: a field whose core is a union without a null-literal member
\* converts to SchemaTypes.Mixed whatever the members are; the members are
\* not converted, so an unsupported member raises nothing.
C10_UnionIsMixed ==
    /\ \A p \in AllPairs :
          (CoreOf(p.field).type = "union" /\ ~HasNullMember(CoreOf(p.field)))
              => Unannotated(p.spec) = Mixed
    /\ (Done("convertField") /\ CoreOf(call.zodField).type = "union"
            /\ ~HasNullMember(CoreOf(call.zodField)))
          => ~Threw(result)

C10_Witness ==
    /\ Returned("createSchema")
    /\ call.zodObject.shape =
          <<[key |-> "a", value |-> ZUnion(<<ZSymbol, ZNumber>>)],
            [key |-> "b", value |-> ZString]>>
    /\ PropAt(PropsOfSchema(SchemaOf(result.returned)), "a") = Mixed

\* A union of exactly two members, one of them the null literal, and its
\* other member.
IsNullUnion(d) ==
    d.type = "union" /\ Len(d.options) = 2 /\ HasNullMember(d)

OtherMember(union) ==
    IF union.options[1] = ZNull THEN union.options[2] ELSE union.options[1]

\* C11 as stated: a field whose core is a union of one type and the null
\* literal converts as that type with the nullable flag forced: {type:
\* type of the other member, default: null}, or the declared default when
\* the field has a default layer.
C11_NullUnionForcesNullDefault ==
    \A p \in AllPairs :
        IsNullUnion(CoreOf(p.field))
            => p.spec =
                 [default |-> IF "default" \in LayersOf(p.field)
                              THEN DeclaredDefault(p.field)
                              ELSE Null,
                  type |-> convertField("f", OtherMember(CoreOf(p.field))).returned]

\* C11, amended: a field whose core is a union of one type and the null
\* literal converts like any other union: its type is SchemaTypes.Mixed,
\* the other member is not converted, nothing is raised, and no null
\* default is forced (the field spec is bare Mixed unless the field has a
\* nullable or a default layer of its own).
C11_NullUnionIsMixed ==
    /\ \A p \in AllPairs :
          IsNullUnion(CoreOf(p.field))
              => /\ Unannotated(p.spec) = Mixed
                 /\ LayersOf(p.field) \cap {"nullable", "default"} = {}
                       => p.spec = Mixed
    /\ (Done("convertField") /\ IsNullUnion(CoreOf(call.zodField)))
          => ~Threw(result)

C11_Witness ==
    /\ Returned("createSchema")
    /\ call.zodObject.shape =
          <<[key |-> "a", value |-> ZOptional(ZUnion(<<ZString, ZNull>>))],
            [key |-> "b", value |-> ZString]>>
    /\ PropAt(PropsOfSchema(SchemaOf(result.returned)), "a") = Mixed

\* The kinds convertField maps; a native enum has the kind of an enum.
SupportedKinds ==
    {"string", "number", "boolean", "date", "array", "object", "enum", "union"}

NoField == [none |-> TRUE]

\* found, reached through the field  key , or an array element ("[]") of it.
Below(key, hops, found) ==
    IF found = NoField
    THEN NoField
    ELSE [found EXCEPT !.path = <<key>> \o hops \o @]

\* The first field, in the order the shapes declare them, whose core is of
\* no supported kind, with its own key, the kind of its core and its path
\* from the top of the call; the element of an array has no key of its own
\* and goes by the key of the array field.
RECURSIVE FirstUnsupported(_, _)
RECURSIVE FirstUnsupportedIn(_, _)
FirstUnsupported(key, field) ==
    LET core == CoreOf(field)
    IN  IF core.type \notin SupportedKinds
        THEN [key |-> key, kind |-> core.type, path |-> <<key>>]
        ELSE IF core.type = "object"
             THEN Below(key, <<>>, FirstUnsupportedIn(core.shape, 1))
             ELSE IF core.type = "array"
                  THEN IF core.element.type = "object"
                       THEN Below(key, <<"[]">>,
                                  FirstUnsupportedIn(core.element.shape, 1))
                       ELSE LET found == FirstUnsupported(key, core.element)
                            IN  IF found = NoField
                                THEN NoField
                                ELSE [found EXCEPT
                                        !.path = <<key, "[]">> \o Tail(@)]
                  ELSE NoField
FirstUnsupportedIn(shape, i) ==
    IF i > Len(shape)
    THEN NoField
    ELSE IF shape[i].value = NotAZodType
         THEN FirstUnsupportedIn(shape, i + 1)
         ELSE LET first == FirstUnsupported(shape[i].key, shape[i].value)
              IN  IF first # NoField
                  THEN first
                  ELSE FirstUnsupportedIn(shape, i + 1)

\* The first such field of the call that has just ended.
Offender ==
    IF Done("createSchema")
    THEN FirstUnsupportedIn(call.zodObject.shape, 1)
    ELSE IF Done("convertField")
         THEN FirstUnsupported(call.fieldName, call.zodField)
         ELSE NoField

\* C12: when the core of a field is of a kind outside string, number,
\* boolean, date, array, object, enum, native enum and union, the call
\* ends, in the caller's own turn, by throwing a TypeError whose message is
\* 'Unsupported type: ' followed by the key of that field. (A modifier
\* layer without inner descriptor is no core; see C15.)
C12_UnsupportedKindThrows ==
    (Offender # NoField /\ Offender.kind \notin ModifierTypes)
        => result = Throw("Unsupported type: " \o Offender.key)

C12_Witness ==
    /\ Done("createSchema")
    /\ call.zodObject.shape =
          <<[key |-> "a", value |-> ZString],
            [key |-> "b", value |-> ZOptional(ZSymbol)]>>
    /\ call.modelName = "str:User"
    /\ call.connection = "connection"
    /\ result = Throw("Unsupported type: b")

C13_EmptyNameWitness ==
    /\ Returned("createSchema")
    /\ call.modelName = "str:"
    /\ call.connection = "connection"
    /\ call.zodObject.shape = <<>>
    /\ result.returned = Schema([props |-> <<>>])
    /\ registered = <<>>

\* C14: when a field of an unsupported kind sits anywhere in the object,
\* at the top, in a nested object, in an array element or in the element
\* shape of an array of objects, and whatever converts before or after it,
\* the whole createSchema call ends with the error: it returns no schema,
\* partial or not, and connection.model is never called.
C14_UnsupportedAbortsCall ==
    (Done("createSchema") /\ Offender # NoField)
        => /\ DOMAIN result = {"thrown"}
           /\ result.thrown.name = "TypeError"
           /\ registered = <<>>

C14_Witness ==
    /\ Done("createSchema")
    /\ call.zodObject.shape =
          <<[key |-> "a", value |-> ZString],
            [key |-> "b", value |-> ZArray(Geo)]>>
    /\ call.modelName = "str:User"
    /\ call.connection = "connection"
    /\ result = Throw("Unsupported type: geo")
    /\ registered = <<>>

\* The chain of d ends in a nullable, optional or default layer that has
\* no inner descriptor.
EndsInBareLayer(d) == CoreOf(d).type \in ModifierTypes

\* A default layer of d declares no value.
HasValuelessDefault(d) == "default without value" \in LayersOf(d)

\* d without its default layers that declare no value.
RECURSIVE DropValueless(_)
DropValueless(d) ==
    IF ~IsLayer(d)
    THEN d
    ELSE IF LayerKind(d) = "default without value"
         THEN DropValueless(d.innerType)
         ELSE [d EXCEPT !.innerType = DropValueless(d.innerType)]

\* C15 as stated: a modifier layer without inner descriptor, or a default
\* layer without a value, ends the modifier chain and never makes
\* unwrapType or convertField throw.
C15_AnomaliesNeverThrow ==
    /\ Done("unwrapType") => ~Threw(result)
    /\ (Done("convertField")
            /\ (EndsInBareLayer(call.zodField) \/ HasValuelessDefault(call.zodField)))
          => ~Threw(result)

\* C15, amended: unwrapType takes a modifier layer without inner descriptor
\* as the end of the chain and never throws; convertField then throws on
\* that layer, 'Unsupported type' for a nullable or optional one and 'Could
\* not determine Mongoose type' for a default one. A default layer without
\* a value, over an inner descriptor, is unwrapped as declaring no default
\* and makes nothing throw.
C15_BareLayerEndsChainAndIsRejected ==
    /\ (Done("unwrapType") /\ EndsInBareLayer(call.data))
          => /\ ~Threw(result)
             /\ result.returned.definition = CoreOf(call.data)
             /\ result.returned.nullable = ("nullable" \in LayersOf(call.data))
             /\ result.returned.optional = ("optional" \in LayersOf(call.data))
    /\ (Done("convertField") /\ CoreOf(call.zodField).type \in {"nullable", "optional"})
          => result = Throw("Unsupported type: " \o call.fieldName)
    /\ (Done("convertField") /\ CoreOf(call.zodField).type = "default")
          => result = Throw("Could not determine Mongoose type for Zod type: "
                              \o call.fieldName)
    /\ (Done("convertField") /\ HasValuelessDefault(call.zodField))
          => /\ ~Threw(result)
             /\ result = convertField(call.fieldName, DropValueless(call.zodField))

C15_Witness ==
    /\ Done("convertField")
    /\ call.zodField = ZOptional(BareDefault("str:Bob"))
    /\ result = Throw("Could not determine Mongoose type for Zod type: f")

\* A default layer without a value around a nullable number.
C15_ValuelessWitness ==
    /\ Done("convertField")
    /\ call.zodField = ZDefault(ZNullable(ZNumber), Undefined)
    /\ result = Return([default |-> Null, type |-> NumberMarker])

\* The keys of the fields of the calls.
KeyNames ==
    {"f", "a", "b", "c", "d", "city", "zip", "geo", "home", "tags", "kind",
     "name", "note", "type"}

UnsupportedMessages == {"Unsupported type: " \o key : key \in KeyNames}
UndeterminedMessages ==
    {"Could not determine Mongoose type for Zod type: " \o key : key \in KeyNames}

\* C16 as stated: whatever the descriptor, a call that fails fails with
\* the unsupported-type error; 'Could not determine Mongoose type' and the
\* 'Expected ... to be of type ZodArray / ZodEnum' errors are never raised.
C16_OnlyUnsupportedTypeError ==
    (pc = "done" /\ Threw(result))
        => result.thrown.message \in UnsupportedMessages

\* C16, amended: a call that fails fails with a TypeError that is either
\* the unsupported-type error or 'Could not determine Mongoose type for Zod
\* type: <field>', the latter exactly when the descriptor that fails is a
\* default layer without inner descriptor; the 'Expected ...' errors are
\* never raised for descriptors whose class is the one of their def.type.
C16_UnsupportedOrUndetermined ==
    (pc = "done" /\ Threw(result))
        => /\ result.thrown.name = "TypeError"
           /\ result.thrown.message \in UnsupportedMessages \cup UndeterminedMessages
           /\ Offender # NoField
           /\ result.thrown.message \in UndeterminedMessages
                 <=> Offender.kind = "default"

C16_Witness ==
    /\ Done("createSchema")
    /\ call.zodObject.shape =
          <<[key |-> "b", value |-> ZString],
            [key |-> "a", value |-> ZArray(BareDefault("num:0"))]>>
    /\ result = Throw("Could not determine Mongoose type for Zod type: a")

\* A layer of d is of another kind than nullable, optional and default.
HasOtherWrapper(d) ==
    LayersOf(d) \ (ModifierTypes \cup {"default without value"}) # {}

\* d without its layers of another kind than nullable, optional, default.
RECURSIVE DropOtherWrappers(_)
DropOtherWrappers(d) ==
    IF ~IsLayer(d)
    THEN d
    ELSE IF d.type \notin ModifierTypes
         THEN DropOtherWrappers(d.innerType)
         ELSE [d EXCEPT !.innerType = DropOtherWrappers(d.innerType)]

\* C17 as stated: the modifier kinds are nullable, optional and default
\* only; a wrapper layer of another kind, around an inner descriptor, is
\* rejected with the unsupported-type error and not unwrapped.
C17_OtherWrapperRejected ==
    (Done("convertField") /\ HasOtherWrapper(call.zodField))
        => result = Throw("Unsupported type: " \o call.fieldName)

\* C17, amended: a descriptor whose core, under every layer that carries
\* an inner descriptor, is of a kind outside the leaf and composite kinds
\* is rejected with the unsupported-type error; a wrapper layer of another
\* kind than nullable, optional and default that carries an inner
\* descriptor is not rejected: it is unwrapped without a trace, the field
\* converting as it does without that layer.
C17_OtherWrapperUnwrapped ==
    /\ (Done("convertField") /\ HasOtherWrapper(call.zodField))
          => result = convertField(call.fieldName,
                                   DropOtherWrappers(call.zodField))
    /\ (Done("convertField")
            /\ CoreOf(call.zodField).type \notin SupportedKinds \cup ModifierTypes)
          => result = Throw("Unsupported type: " \o call.fieldName)

C17_Witness ==
    /\ Done("convertField")
    /\ call.zodField = ZNullable(ZReadonly(ZString))
    /\ result = Return([default |-> Null, type |-> StringMarker])

\* A readonly wrapper around an unsupported type is rejected for its core.
C17_RejectedWitness ==
    /\ Done("convertField")
    /\ call.zodField = ZReadonly(ZSymbol)
    /\ result = Throw("Unsupported type: f")

\* The field that fails lies below the top of the call: in a nested
\* object, in an array, or in the element shape of an array of objects.
OffenderIsNested == Offender # NoField /\ Len(Offender.path) > 1

\* The messages that name one component of a path and nothing more.
SingleKeyMessages(path) ==
    UNION {{"Unsupported type: " \o path[i],
            "Could not determine Mongoose type for Zod type: " \o path[i]} :
              i \in 1..Len(path)}

\* C18 as stated: for an unsupported kind inside an array element or a
\* nested object, the error names the field by its path from the top-level
\* object, not by its innermost key alone nor by the key of the enclosing
\* array field alone.
C18_ErrorNamesPath ==
    (pc = "done" /\ OffenderIsNested)
        => /\ Threw(result)
           /\ result.thrown.message \notin SingleKeyMessages(Offender.path)

\* C18, amended: for an unsupported kind inside an array element or a
\* nested object, the error names one key and no path: the innermost key
\* of the field that fails, and for an array element that is no object the
\* key of the enclosing array field.
C18_ErrorNamesInnermostKey ==
    (pc = "done" /\ OffenderIsNested)
        => /\ Threw(result)
           /\ result.thrown.message =
                (IF Offender.kind = "default"
                 THEN "Could not determine Mongoose type for Zod type: "
                 ELSE "Unsupported type: ") \o Offender.key

C18_Witness ==
    /\ Done("createSchema")
    /\ call.zodObject.shape =
          <<[key |-> "a", value |-> ZObject(<<[key |-> "home", value |-> Geo]>>)],
            [key |-> "b", value |-> ZString]>>
    /\ Offender.path = <<"a", "home", "geo">>
    /\ result = Throw("Unsupported type: geo")

\* An array element that is no object goes by the key of the array field.
C18_ElementWitness ==
    /\ Done("createSchema")
    /\ call.zodObject.shape =
          <<[key |-> "a", value |-> ZObject(
                <<[key |-> "tags", value |-> ZArray(ZSymbol)],
                  [key |-> "home", value |-> Address]>>)]>>
    /\ Offender.path = <<"a", "tags", "[]">>
    /\ result = Throw("Unsupported type: tags")

RECURSIVE Size(_)
RECURSIVE SizeOfShape(_, _)
Size(d) ==
    1 + (IF IsLayer(d)
         THEN Size(d.innerType)
         ELSE IF d.type = "object"
              THEN SizeOfShape(d.shape, 1)
              ELSE IF d.type = "array" THEN Size(d.element) ELSE 0)
SizeOfShape(shape, i) ==
    IF i > Len(shape)
    THEN 0
    ELSE 1 + (IF IsZodType(shape[i].value) THEN Size(shape[i].value) ELSE 0)
           + SizeOfShape(shape, i + 1)

\* The steps of a call stay within a bound linear in the size of its input.
StepsBounded ==
    /\ call.op = "unwrapType, stepwise" => steps <= Size(call.data)
    /\ call.op = "createSchema, stepwise" => steps <= 2 * Size(call.zodObject)

\* A stepwise call ends the way the call run at once ends.
StepsAgree ==
    /\ (pc = "done" /\ call.op = "unwrapType, stepwise")
          => /\ result.returned.definition = unwrapType(call.data).definition
             /\ ~IsLayer(result.returned.definition)
    /\ (pc = "done" /\ call.op = "createSchema, stepwise")
          => LET outcome == createSchema(call.zodObject, Undefined, Undefined)
             IN  IF Threw(outcome) THEN result = outcome ELSE ~Threw(result)

\* C20: for every finite descriptor tree, unwrapType ends, at a core
\* descriptor that carries no further inner layer, and createSchema ends,
\* after a number of steps bounded by the size of the tree.
C20_Terminates ==
    /\ [](StepsBounded /\ StepsAgree)
    /\ (pc = "running") ~> (pc = "done")

C20_Witness ==
    /\ pc = "done"
    /\ call.op = "createSchema, stepwise"
    /\ call.zodObject.shape =
          <<[key |-> "a", value |-> ZOptional(ZDefault(ZNullable(Address), "str:Bob"))],
            [key |-> "b", value |-> NotAZodType]>>
    /\ ~Threw(result)
    /\ steps = 13

\* unwrapType has gone through a nullable and a readonly layer to the string
\* under them.
C20_UnwrapWitness ==
    /\ pc = "done"
    /\ call.op = "unwrapType, stepwise"
    /\ call.data = ZNullable(ZReadonly(ZString))
    /\ result.returned.definition = ZString
    /\ steps = 3

\* Two outcomes carry the same schema definition, or are the same error.
SameDefinition(a, b) ==
    IF Threw(a) \/ Threw(b)
    THEN a = b
    ELSE SchemaOf(a.returned) = SchemaOf(b.returned)

C22_ArrayElementKeepsModifiers ==
    \A p \in AllPairs :
        LET core == CoreOf(p.field)
            mapped == Unannotated(p.spec)
        IN  (core.type = "array" /\ core.element.type # "object")
              => /\ mapped = [list |-> <<convertField("f", core.element).returned>>]
                 /\ core.element = ZNullable(ZString)
                       => mapped = [list |-> <<[default |-> Null,
                                                type |-> StringMarker]>>]
                 /\ (core.element.type = "default"
                        /\ core.element.innerType = ZString)
                       => mapped = [list |-> <<[default |-> core.element.defaultValue,
                                                type |-> StringMarker]>>]

C22_Witness ==
    /\ Returned("convertField")
    /\ call.zodField = ZOptional(ZArray(ZDefault(ZString, "str:Bob")))
    /\ result.returned =
          [list |-> <<[default |-> "str:Bob", type |-> StringMarker]>>]

\* The keys of the field entries of a shape, in the order of the shape.
FieldKeySeq(shape) == KeysOf(FieldSeq(shape))

\* C23: the fields of an object descriptor are visited in the order the
\* shape declares them (of two fields that cannot be converted, the one
\* declared first raises the error), and the keys of the schema definition
\* come in that same order, the metadata entries left out; likewise in a
\* nested object and in the element shape of an array of objects.
C23_KeysInDeclaredOrder ==
    /\ Returned("createSchema")
          => KeysOf(PropsOfSchema(SchemaOf(result.returned)))
                = FieldKeySeq(call.zodObject.shape)
    /\ (Done("createSchema") /\ Offender # NoField)
          => /\ Threw(result)
             /\ result.thrown.message \in SingleKeyMessages(<<Offender.key>>)
    /\ \A p \in AllPairs :
          LET core == CoreOf(p.field)
              mapped == Unannotated(p.spec)
          IN  /\ core.type = "object"
                    => KeysOf(PropsOfSchema(mapped)) = FieldKeySeq(core.shape)
              /\ (core.type = "array" /\ core.element.type = "object")
                    => KeysOf(PropsOfMapping(ElementOf(mapped)))
                          = FieldKeySeq(core.element.shape)

C23_Witness ==
    /\ Returned("createSchema")
    /\ call.zodObject.shape =
          <<[key |-> "b", value |-> ZArray(Item)],
            [key |-> "a", value |-> ZString]>>
    /\ KeysOf(PropsOfSchema(SchemaOf(result.returned))) = <<"b", "a">>
    /\ KeysOf(PropsOfMapping(ElementOf(
            PropAt(PropsOfSchema(SchemaOf(result.returned)), "b"))))
          = <<"name", "type">>

\* Two fields that cannot be converted: the first declared is the one named.
C23_FirstErrorWitness ==
    /\ Done("createSchema")
    /\ call.zodObject.shape =
          <<[key |-> "b", value |-> ZNullable(ZSymbol)],
            [key |-> "a", value |-> ZSymbol]>>
    /\ result = Throw("Unsupported type: b")

\* The number of default layers of d.
RECURSIVE DefaultCount(_)
DefaultCount(d) ==
    IF ~IsLayer(d)
    THEN 0
    ELSE (IF d.type = "default" THEN 1 ELSE 0) + DefaultCount(d.innerType)

\* d with its optional layers removed and its other layers in one fixed
\* order: the default layer, if any, around the nullable layer, if any,
\* around the core.
Normalized(d) ==
    LET underDefault == IF "nullable" \in LayersOf(d)
                        THEN ZNullable(CoreOf(d))
                        ELSE CoreOf(d)
    IN  IF "default" \in LayersOf(d)
        THEN ZDefault(underDefault, DeclaredDefault(d))
        ELSE underDefault

\* C24: for a chain of nullable, optional and default layers with at most
\* one default layer, the conversion is the same whatever the number of
\* optional layers and whatever the order of the layers; a chain of
\* optional layers alone gives the bare type of the core.
C24_OrderAndOptionalIrrelevant ==
    (Done("convertField")
        /\ LayersOf(call.zodField) \subseteq ModifierTypes
        /\ DefaultCount(call.zodField) <= 1)
      => /\ result = convertField(call.fieldName, Normalized(call.zodField))
         /\ LayersOf(call.zodField) = {"optional"}
               => result = convertField(call.fieldName, CoreOf(call.zodField))

C24_Witness ==
    /\ Returned("convertField")
    /\ call.zodField = ZOptional(ZDefault(ZNullable(ZString), "str:Bob"))
    /\ Normalized(call.zodField) = ZDefault(ZNullable(ZString), "str:Bob")
    /\ result.returned = [default |-> "str:Bob", type |-> StringMarker]

\* Optional layers alone leave the bare type.
C24_OptionalOnlyWitness ==
    /\ Returned("convertField")
    /\ call.zodField = ZOptional(ZOptional(ZOptional(Address)))
    /\ result = convertField("f", Address)

\* The values of the default layers of d, from the outermost to the
\* innermost.
RECURSIVE DefaultsOf(_)
DefaultsOf(d) ==
    IF ~IsLayer(d)
    THEN <<>>
    ELSE IF d.type = "default" /\ "defaultValue" \in DOMAIN d
         THEN <<d.defaultValue>> \o DefaultsOf(d.innerType)
         ELSE DefaultsOf(d.innerType)

InnermostDefault(d) == DefaultsOf(d)[Len(DefaultsOf(d))]

OuterDefaults(d) ==
    {DefaultsOf(d)[i] : i \in 1..(Len(DefaultsOf(d)) - 1)}

\* C25: with more than one default layer in the chain, the default of the
\* output is the value of the innermost default layer, and a value that
\* only an outer default layer declares is not in the output; an innermost
\* default layer without value leaves no default from an outer layer.
C25_InnermostDefaultWins ==
    /\ (Returned("convertField")
          /\ LayersOf(call.zodField) \subseteq ModifierTypes
          /\ Len(DefaultsOf(call.zodField)) > 1)
         => /\ result.returned
                 = [default |-> InnermostDefault(call.zodField),
                    type |-> CoreTypeOf(call.zodField)]
            /\ \A v \in OuterDefaults(call.zodField) :
                  v # InnermostDefault(call.zodField)
                     => result.returned.default # v
    /\ (Returned("unwrapType") /\ Len(DefaultsOf(call.data)) > 1)
         => result.returned.defaultValue = InnermostDefault(call.data)
    /\ convertField("f", ZDefault(ZDefault(ZString, Undefined), "str:Bob"))
         = Return(StringMarker)

C25_Witness ==
    /\ Returned("convertField")
    /\ call.zodField = ZDefault(ZNullable(ZDefault(ZString, "str:")), "str:Bob")
    /\ DefaultsOf(call.zodField) = <<"str:Bob", "str:">>
    /\ result.returned = [default |-> "str:", type |-> StringMarker]

\* Three default layers.
C25_TripleWitness ==
    /\ Returned("convertField")
    /\ Len(DefaultsOf(call.zodField)) = 3
    /\ result.returned = [default |-> "num:0", type |-> NumberMarker]

\* A stepwise createSchema call with a model name and a connection that
\* make createSchema register a model.
AsksForModel ==
    /\ call.op = "createSchema, stepwise"
    /\ ~Falsy(call.modelName)
    /\ ~Falsy(call.connection)

\* An activation of createSchema for an object field is on the stack.
NestedActive ==
    \E i \in 2..Len(frames) : IsSchemaFrame(frames[i])

\* The step is a call of connection.model.
Registers == registered' # registered /\ registered' # <<>>

\* C26: one createSchema call makes at most one call of connection.model,
\* made by the activation for the top-level object when its loop has
\* converted every field and nothing has been thrown; the activations for
\* nested object fields make none, whatever model name and connection the
\* top-level call was given.
C26_RegistersOnceAtTop ==
    /\ [](/\ Len(registered) <= 1
          /\ NestedActive => registered = <<>>
          /\ registered # <<>>
                => /\ pc = "done"
                   /\ ~Threw(result)
                   /\ AsksForModel
                   /\ registered
                        = modelCalls(call.zodObject, call.modelName, call.connection))
    /\ [][Registers => /\ Len(frames) = 1
                       /\ IsSchemaFrame(Top)
                       /\ Top.i > Len(Top.shape)
                       /\ frames' = <<>>
                       /\ pc' = "done"]_vars

\* A model has been registered for an object with objects inside.
C26_Witness ==
    /\ pc = "done"
    /\ AsksForModel
    /\ call.zodObject.shape =
          <<[key |-> "a", value |-> ZOptional(ZDefault(ZNullable(Address), "str:Bob"))],
            [key |-> "b", value |-> Address]>>
    /\ Len(registered) = 1
    /\ registered[1].modelName = "str:User"

\* The activation for a nested object is about to return, in a call that
\* asks for a model: nothing is registered.
C26_NestedWitness ==
    /\ pc = "running"
    /\ AsksForModel
    /\ Len(frames) = 3
    /\ IsSchemaFrame(Top)
    /\ Top.i > Len(Top.shape)
    /\ registered = <<>>

\* A field below the top cannot be converted: nothing is registered.
C26_ThrownWitness ==
    /\ pc = "done"
    /\ AsksForModel
    /\ Threw(result)
    /\ registered = <<>>

\* A plain mapping of field names to field specs: no Schema, no annotation.
IsPlainMapping(v) == DOMAIN v = {"props"}

\* C27: the element of the list an array converts to is one plain mapping
\* exactly when the element descriptor of the array is an object with no
\* layer around it; an object under nullable, optional or default layers is
\* converted like a field of its own, to a nested Schema annotated as the
\* layers of the element say, and the list holds that one field spec.
C27_PlainMappingOnlyForBareObject ==
    \A p \in AllPairs :
        LET core == CoreOf(p.field)
            mapped == Unannotated(p.spec)
        IN  core.type = "array"
              => LET element == core.element
                     layers == LayersOf(element)
                     nested == Schema(MappingOf(CoreOf(element).shape))
                 IN  /\ IsList(mapped) /\ Len(mapped.list) = 1
                     /\ IsPlainMapping(mapped.list[1]) <=> element.type = "object"
                     /\ element.type = "object"
                           => mapped.list[1] = MappingOf(element.shape)
                     /\ (IsLayer(element) /\ CoreOf(element).type = "object")
                           => /\ mapped.list[1]
                                   = convertField("f", element).returned
                              /\ Unannotated(mapped.list[1]) = nested
                              /\ layers = {"optional"}
                                    => mapped.list[1] = nested
                              /\ layers \cap {"nullable", "default"} = {"nullable"}
                                    => mapped.list[1]
                                         = [default |-> Null, type |-> nested]
                              /\ "default" \in layers
                                    => mapped.list[1]
                                         = [default |-> DeclaredDefault(element),
                                            type |-> nested]

C27_Witness ==
    /\ Returned("convertField")
    /\ call.zodField = ZArray(ZNullable(Address))
    /\ result.returned =
          [list |-> <<[default |-> Null, type |-> Schema(MappingOf(Address.shape))]>>]

\* The element is an object with no layer: one plain mapping.
C27_BareWitness ==
    /\ Returned("convertField")
    /\ call.zodField = ZNullable(ZArray(Address))
    /\ Unannotated(result.returned) = [list |-> <<MappingOf(Address.shape)>>]

\* The element is an object under a default layer.
C27_DefaultWitness ==
    /\ Returned("convertField")
    /\ CoreOf(call.zodField) = ZArray(ZDefault(Address, "str:Bob"))
    /\ Unannotated(result.returned) =
          [list |-> <<[default |-> "str:Bob",
                       type |-> Schema(MappingOf(Address.shape))]>>]

====
